---- MODULE Spec2Model ----
(***************************************************************************)
(* The chat session hook of the Skintel client (src/hooks/use-chat.ts):    *)
(* the Message list, the Exchange log (conversationHistory), the two       *)
(* localStorage entries they are persisted under, and the operations       *)
(* addMessage, updateConversationHistory and clearChat.                    *)
(*                                                                         *)
(* A handler call and the render it causes are one step: React applies the *)
(* queued state updates in call order, so the state after the step is the  *)
(* updaters applied in that order.  The two persistence effects of a       *)
(* render run afterwards, together, as one step (RunEffects); a page       *)
(* reload (Reload) may come before they have run, and then they never run. *)
(***************************************************************************)
EXTENDS Integers, Sequences, FiniteSets

\* ------------------------------------------------------------------ bounds

\* Largest configured cap (maxHistoryLength) explored: caps 0..MaxCap.
MaxCap == 4
\* Most addMessage and updateConversationHistory calls, taken together, on one
\* seeded session.
MaxCalls == 3
\* Largest value the clock (Date.now()) reaches.
MaxTime == 1
\* ChatBot: requests and advice timers outstanding at the same time
MaxRequests == 2
\* ChatBot: a chat send needs at most this many messages put into the
\* session since its start or its last clear, an analysis event fewer
MaxInserted == 3
\* addMessage calls made in the default-cap specification.
DefaultAdds == 56

\* ------------------------------------------------------- program constants

\* use-chat.ts:18, the default of options.maxHistoryLength
DefaultMaxHistoryLength == 50

StorageKeyBase == "skincare-chat-history"
MessagesKey == "skincare-chat-history-messages"
ConversationKey == "skincare-chat-history-conversation"
Keys == {MessagesKey, ConversationKey}
\* The entries of the login (api.ts:191-192).
TokenKey == "token"
UserKey == "user"
AuthKeys == {TokenKey, UserKey}
AllKeys == Keys \cup AuthKeys
\* The people who log in on this browser.
Users == {"alice", "bob"}

\* The first words of the two fixed texts (use-chat.ts:36 and :104).
WelcomeText == "Hi! I'm your AI-powered skincare consultant."
ClearedText == "Chat cleared! How can I help you with your skincare today?"

\* What a caller passes to addMessage: {content, sender}.
Inputs ==
  { [content |-> "Hi", sender |-> "user"],
    [content |-> "Hello!", sender |-> "bot"] }

\* What a caller passes to updateConversationHistory.
Exchanges ==
  { [user |-> "Hi", bot |-> "Hello!"],
    [user |-> "Thanks", bot |-> "Welcome"] }

\* Math.random().toString(36).substr(2, 9): some base-36 suffix.  Nothing in the
\* program reads it back, so one value stands for all of them; two messages
\* made at one clock value with one suffix are the (rare) collision.
Rand == {"k3j9x2m1q"}

NoTime == 0 - 1
\* no messages.length seen yet
NoLength == 0 - 1

\* ------------------------------------------------------------ JS helpers

Min(a, b) == IF a < b THEN a ELSE b
Max(a, b) == IF a > b THEN a ELSE b

\* Array.prototype.slice(start): a negative start counts from the end, and
\* -0 is 0, so slice(-0) is the whole array.
Slice(arr, start) ==
  LET len == Len(arr)
      k == IF start < 0 THEN Max(len + start, 0) ELSE Min(start, len)
  IN SubSeq(arr, k + 1, len)

\* Math.floor(n / 2) for n >= 0
Floor2(n) == n \div 2

Range(s) == { s[i] : i \in 1..Len(s) }

\* new Date() at clock value t, and its JSON form (Date.prototype.toJSON gives
\* the ISO string of the same instant; new Date(iso) reads it back).
DateOf(t) == [date |-> t]
ToISOString(d) == [iso |-> d.date]
NewDateFromISO(s) == [date |-> s.iso]

\* ------------------------------------------------------------ identifiers

\* "initial"
IdInitial == [pre |-> "initial", time |-> NoTime, suf |-> ""]
\* "initial-" + Date.now()
IdCleared(t) == [pre |-> "initial-", time |-> t, suf |-> ""]
\* Date.now().toString() + Math.random().toString(36).substr(2, 9)
IdGenerated(t, r) == [pre |-> "", time |-> t, suf |-> r]

\* ---------------------------------------------------------------- storage

Absent == [kind |-> "absent", items |-> <<>>]
\* a stored string JSON.parse rejects
Garbage == [kind |-> "garbage", items |-> <<>>]
\* a stored JSON array text with these elements
ArrayText(items) == [kind |-> "array", items |-> items]
\* a stored JSON text that parses to something that is no array: {}
NonArray == [kind |-> "object", items |-> <<>>]
\* the access token of user u, and JSON.stringify(user)
TokenOf(u) == [kind |-> "token", items |-> << u >>]
UserOf(u) == [kind |-> "user", items |-> << u >>]

\* The login entries: those of user u, or none.
LoggedIn(u) == [k \in AuthKeys |-> IF k = TokenKey THEN TokenOf(u) ELSE UserOf(u)]
LoggedOut == [k \in AuthKeys |-> Absent]

\* localStorage holding m and c under the two chat keys and these login
\* entries.
StorageWith(m, c, auth) ==
  [ k \in AllKeys |-> IF k = MessagesKey THEN m
                      ELSE IF k = ConversationKey THEN c
                      ELSE auth[k] ]

\* JSON.stringify(messages): every message with its timestamp as ISO string
StringifyMessages(msgs) ==
  ArrayText([ i \in 1..Len(msgs) |->
    [ id |-> msgs[i].id, content |-> msgs[i].content,
      sender |-> msgs[i].sender, timestamp |-> ToISOString(msgs[i].timestamp) ] ])

\* JSON.stringify(conversationHistory)
StringifyConversation(hist) == ArrayText(hist)

\* parsed.map(msg => ({...msg, timestamp: new Date(msg.timestamp)}))
ReviveMessages(items) ==
  [ i \in 1..Len(items) |->
    [ id |-> items[i].id, content |-> items[i].content,
      sender |-> items[i].sender,
      timestamp |-> NewDateFromISO(items[i].timestamp) ] ]

\* The seeded welcome message (use-chat.ts:34-39).
WelcomeMessage(t) ==
  [ id |-> IdInitial, content |-> WelcomeText, sender |-> "bot",
    timestamp |-> DateOf(t) ]

\* Mutant: the catch branch gives up with an empty list.
InitialMessagesEmptyOnFailure(saved, t) ==
  IF saved.kind = "array" THEN ReviveMessages(saved.items)
  ELSE IF saved.kind = "garbage" THEN <<>>
  ELSE <<WelcomeMessage(t)>>

\* The useState initializer of messages (use-chat.ts:20-40).
InitialMessages(saved, t) ==
  IF saved.kind = "array" THEN ReviveMessages(saved.items)
  ELSE <<WelcomeMessage(t)>>

\* Mutant: the saved Exchange log is never read back.
InitialConversationIgnoresSaved(saved) == <<>>

\* The useState initializer of conversationHistory (use-chat.ts:42-52).
InitialConversation(saved) ==
  IF saved.kind = "array" THEN saved.items ELSE <<>>

\* What that initializer's value is: `return JSON.parse(savedHistory)` hands
\* back whatever was parsed, so a stored {} becomes the state as it is.
InitialConversationShape(saved) ==
  IF saved.kind = "object" THEN "object" ELSE "array"

\* ------------------------------------------------------------ the updaters

\* The message addMessage builds (use-chat.ts:65-69).
NewMessage(input, t, r) ==
  [ id |-> IdGenerated(t, r), content |-> input.content,
    sender |-> input.sender, timestamp |-> DateOf(t) ]

\* Mutant: slice(0, cap), which keeps the oldest entries.
AddMessageUpdaterKeepsOldest(prev, newMessage, cap) ==
  LET updated == Append(prev, newMessage)
  IN IF Len(updated) > cap THEN SubSeq(updated, 1, cap) ELSE updated

\* Mutant: a full list refuses the new message.
AddMessageUpdaterDropsWhenFull(prev, newMessage, cap) ==
  IF Len(prev) >= cap THEN prev ELSE Append(prev, newMessage)

\* Mutant: the new message is put in front of the list.
AddMessageUpdaterPrepends(prev, newMessage, cap) ==
  LET updated == << newMessage >> \o prev
  IN IF Len(updated) > cap THEN Slice(updated, 0 - cap) ELSE updated

\* The setMessages updater of addMessage (use-chat.ts:71-78).
AddMessageUpdater(prev, newMessage, cap) ==
  LET updated == Append(prev, newMessage)
  IN IF Len(updated) > cap THEN Slice(updated, 0 - cap) ELSE updated

\* Mutant: the two entries are appended assistant first.
ConversationUpdaterSwapped(prev, userMessage, botResponse, cap) ==
  LET updated == prev \o << [role |-> "assistant", content |-> botResponse],
                            [role |-> "user", content |-> userMessage] >>
      maxExchanges == Floor2(cap)
  IN IF Len(updated) > maxExchanges * 2
       THEN Slice(updated, 0 - (maxExchanges * 2))
       ELSE updated

\* Mutant: the log is cut to maxHistoryLength entries, not to whole exchanges.
ConversationUpdaterByEntries(prev, userMessage, botResponse, cap) ==
  LET updated == prev \o << [role |-> "user", content |-> userMessage],
                            [role |-> "assistant", content |-> botResponse] >>
  IN IF Len(updated) > cap THEN Slice(updated, 0 - cap) ELSE updated

\* The setConversationHistory updater (use-chat.ts:84-98).
ConversationUpdater(prev, userMessage, botResponse, cap) ==
  LET updated == prev \o << [role |-> "user", content |-> userMessage],
                            [role |-> "assistant", content |-> botResponse] >>
      maxExchanges == Floor2(cap)
  IN IF Len(updated) > maxExchanges * 2
       THEN Slice(updated, 0 - (maxExchanges * 2))
       ELSE updated

\* The message clearChat installs (use-chat.ts:102-107).
ClearedMessage(t) ==
  [ id |-> IdCleared(t), content |-> ClearedText, sender |-> "bot",
    timestamp |-> DateOf(t) ]

\* ------------------------------------------------------------------ state

VARIABLES
  maxHistoryLength,     \* options.maxHistoryLength
  now,                  \* the clock: what Date.now() returns
  messages,             \* useState: the Message list
  conversationHistory,  \* useState: the Exchange log
  storage,              \* localStorage, key -> stored value
  dirtyMessages,        \* the messages effect is due (messages changed)
  dirtyConversation,    \* the conversation effect is due
  lastOp,               \* history: the last operation and its arguments
  inserted,             \* history: messages put into this session, in order
  insertedConv,         \* history: entries put into this Exchange log
  convEvicted,          \* history: an update dropped entries of this log
  earlierIds,           \* history: ids of the messages that existed earlier
                        \*   and that a new id can still equal
  cleared,              \* history: clearChat has been called
  conversationShape,    \* "array", or "object" when conversationHistory holds
                        \*   the non-array value a mount parsed
  uncaught,             \* the error nothing caught ("none" when there is
                        \*   none); React unmounts the tree on one
  isAuthenticated,      \* ChatBot: useAuth().isAuthenticated
  isTyping,             \* ChatBot: useState(false)
  error,                \* ChatBot: useState(null), "" for null
  pending,              \* ChatBot: the requests awaiting their response
  timers,               \* ChatBot: setTimeout callbacks not yet run
  analysisResult,       \* ChatBot: the analysisResult prop is set (and has
                        \*   concerns)
  seenLength,           \* ChatBot: messages.length in the dependencies of
                        \*   the auto-trigger effect's last run for this
                        \*   analysisResult (NoLength: it has not run yet)
  autoTriggers,         \* history: auto-triggers for this analysisResult
                        \*   (counted up to 2)
  page                  \* "dashboard": ChatBot is mounted; "leaving": the
                        \*   401 handler has assigned window.location.href,
                        \*   the document is still alive; "login": the
                        \*   login page, no ChatBot

\* The state of the ChatBot component around the hook.
chatVars == << isAuthenticated, isTyping, error, pending, timers,
               analysisResult, seenLength, autoTriggers, page >>

vars == << maxHistoryLength, now, messages, conversationHistory, storage,
           dirtyMessages, dirtyConversation, lastOp, inserted, insertedConv,
           convEvicted, earlierIds, cleared, conversationShape, uncaught,
           isAuthenticated, isTyping, error, pending, timers,
           analysisResult, seenLength, autoTriggers, page >>

\* op: the operation; a, b: its arguments (for a mount, what kind of value
\* each storage key held); synced: a mount found both effects already run.
Op(op, a, b, synced) == [op |-> op, a |-> a, b |-> b, synced |-> synced]

Ids(msgs) == { msgs[i].id : i \in 1..Len(msgs) }

\* Every generated id carries the clock value of its creation and the clock
\* never goes back, so of the earlier ids only "initial" and those made at
\* the current clock value t can be equal to an id made from now on.
StillPossible(ids, t) == { i \in ids : i.time \in {NoTime, t} }

\* The hook is mounted (first render) on this storage at this time.
Mount(cap, st, t) ==
  /\ maxHistoryLength = cap
  /\ now = t
  /\ storage = st
  /\ messages = InitialMessages(st[MessagesKey], t)
  /\ conversationHistory = InitialConversation(st[ConversationKey])
  /\ dirtyMessages = TRUE
  /\ dirtyConversation = TRUE
  /\ lastOp = Op("init", st[MessagesKey].kind, st[ConversationKey].kind, FALSE)
  /\ inserted = InitialMessages(st[MessagesKey], t)
  /\ insertedConv = InitialConversation(st[ConversationKey])
  /\ convEvicted = FALSE
  /\ earlierIds = {}
  /\ cleared = FALSE
  /\ conversationShape = InitialConversationShape(st[ConversationKey])
  /\ uncaught = "none"
  /\ isTyping = FALSE
  /\ error = ""
  /\ pending = <<>>
  /\ timers = 0
  /\ analysisResult = FALSE
  /\ seenLength = NoLength
  /\ autoTriggers = 0
  /\ page = "dashboard"

\* First visit: nothing stored, or something this program cannot parse.
Init ==
  \E cap \in 0..MaxCap, m \in {Absent, Garbage}, c \in {Absent, Garbage} :
    /\ Mount(cap, StorageWith(m, c, LoggedIn("alice")), 0)
    /\ isAuthenticated = TRUE


\* Mutant: addMessage writes the new list to storage itself.
AddMessageWritesThrough(input, r) ==
  LET newMessage == NewMessage(input, now, r)
      updated == AddMessageUpdater(messages, newMessage, maxHistoryLength)
  IN /\ uncaught = "none"
     /\ messages' = updated
     /\ storage' = [storage EXCEPT ![MessagesKey] = StringifyMessages(updated)]
     /\ dirtyMessages' = FALSE
     /\ lastOp' = Op("add", input.content, input.sender, FALSE)
     /\ inserted' = Append(inserted, newMessage)
     /\ earlierIds' = StillPossible(earlierIds \cup Ids(messages), now)
     /\ UNCHANGED << maxHistoryLength, now, conversationHistory,
                     dirtyConversation, insertedConv, convEvicted, cleared,
                     conversationShape, uncaught >>
     /\ UNCHANGED chatVars

\* Mutant: addMessage also records a user message in the Exchange log.
AddMessageLogsUser(input, r) ==
  LET newMessage == NewMessage(input, now, r)
  IN /\ uncaught = "none"
     /\ messages' = AddMessageUpdater(messages, newMessage, maxHistoryLength)
     /\ conversationHistory' =
          IF input.sender = "user"
            THEN Append(conversationHistory,
                        [role |-> "user", content |-> input.content])
            ELSE conversationHistory
     /\ dirtyMessages' = TRUE
     /\ dirtyConversation' = TRUE
     /\ lastOp' = Op("add", input.content, input.sender, FALSE)
     /\ inserted' = Append(inserted, newMessage)
     /\ earlierIds' = StillPossible(earlierIds \cup Ids(messages), now)
     /\ UNCHANGED << maxHistoryLength, now, storage, insertedConv, convEvicted,
                     cleared, conversationShape, uncaught >>
     /\ UNCHANGED chatVars

\* addMessage({content, sender}) and the render that applies it.
AddMessage(input, r) ==
  LET newMessage == NewMessage(input, now, r)
  IN /\ uncaught = "none"
     /\ messages' = AddMessageUpdater(messages, newMessage, maxHistoryLength)
     /\ dirtyMessages' = TRUE
     /\ lastOp' = Op("add", input.content, input.sender, FALSE)
     /\ inserted' = Append(inserted, newMessage)
     /\ earlierIds' = StillPossible(earlierIds \cup Ids(messages), now)
     /\ UNCHANGED << maxHistoryLength, now, conversationHistory, storage,
                     dirtyConversation, insertedConv, convEvicted, cleared,
                     conversationShape, uncaught >>
     /\ UNCHANGED chatVars

\* updateConversationHistory(userMessage, botResponse) and its render.
UpdateConversationHistory(userMessage, botResponse) ==
  LET result == ConversationUpdater(conversationHistory, userMessage,
                                    botResponse, maxHistoryLength)
  IN /\ uncaught = "none"
     /\ conversationShape = "array"
     /\ conversationHistory' = result
     /\ dirtyConversation' = TRUE
     /\ lastOp' = Op("update", userMessage, botResponse, FALSE)
     /\ insertedConv' = insertedConv \o
          << [role |-> "user", content |-> userMessage],
             [role |-> "assistant", content |-> botResponse] >>
     /\ convEvicted' = (convEvicted \/ Len(result) < Len(conversationHistory) + 2)
     /\ UNCHANGED << maxHistoryLength, now, messages, storage, dirtyMessages,
                     inserted, earlierIds, cleared, conversationShape,
                     uncaught >>
     /\ UNCHANGED chatVars

\* Mutant: clearChat without setConversationHistory([]).
ClearChatKeepsHistory ==
  /\ uncaught = "none"
  /\ messages' = << ClearedMessage(now) >>
  /\ conversationHistory' = conversationHistory
  /\ storage' = [storage EXCEPT ![MessagesKey] = Absent,
                                ![ConversationKey] = Absent]
  /\ dirtyMessages' = TRUE
  /\ dirtyConversation' = TRUE
  /\ lastOp' = Op("clear", "", "", FALSE)
  /\ inserted' = << ClearedMessage(now) >>
  /\ insertedConv' = <<>>
  /\ convEvicted' = FALSE
  /\ earlierIds' = StillPossible(earlierIds \cup Ids(messages), now)
  /\ cleared' = TRUE
  /\ conversationShape' = "array"
  /\ UNCHANGED << maxHistoryLength, now, uncaught >>
  /\ UNCHANGED chatVars

\* Mutant: clearChat without the two removeItem calls.
ClearChatKeepsStorage ==
  /\ uncaught = "none"
  /\ messages' = << ClearedMessage(now) >>
  /\ conversationHistory' = <<>>
  /\ storage' = storage
  /\ dirtyMessages' = TRUE
  /\ dirtyConversation' = TRUE
  /\ lastOp' = Op("clear", "", "", FALSE)
  /\ inserted' = << ClearedMessage(now) >>
  /\ insertedConv' = <<>>
  /\ convEvicted' = FALSE
  /\ earlierIds' = StillPossible(earlierIds \cup Ids(messages), now)
  /\ cleared' = TRUE
  /\ conversationShape' = "array"
  /\ UNCHANGED << maxHistoryLength, now, uncaught >>
  /\ UNCHANGED chatVars

\* Mutant: clearChat empties the whole storage (localStorage.clear()).
ClearChatClearsStorage ==
  /\ uncaught = "none"
  /\ messages' = << ClearedMessage(now) >>
  /\ conversationHistory' = <<>>
  /\ storage' = [k \in AllKeys |-> Absent]
  /\ dirtyMessages' = TRUE
  /\ dirtyConversation' = TRUE
  /\ lastOp' = Op("clear", "", "", FALSE)
  /\ inserted' = << ClearedMessage(now) >>
  /\ insertedConv' = <<>>
  /\ convEvicted' = FALSE
  /\ earlierIds' = StillPossible(earlierIds \cup Ids(messages), now)
  /\ cleared' = TRUE
  /\ conversationShape' = "array"
  /\ UNCHANGED << maxHistoryLength, now, uncaught >>
  /\ UNCHANGED chatVars

\* Mutant: clearChat leaves an empty Message list.
ClearChatEmptiesList ==
  /\ uncaught = "none"
  /\ messages' = <<>>
  /\ conversationHistory' = <<>>
  /\ storage' = [storage EXCEPT ![MessagesKey] = Absent,
                                ![ConversationKey] = Absent]
  /\ dirtyMessages' = TRUE
  /\ dirtyConversation' = TRUE
  /\ lastOp' = Op("clear", "", "", FALSE)
  /\ inserted' = <<>>
  /\ insertedConv' = <<>>
  /\ convEvicted' = FALSE
  /\ earlierIds' = StillPossible(earlierIds \cup Ids(messages), now)
  /\ cleared' = TRUE
  /\ conversationShape' = "array"
  /\ UNCHANGED << maxHistoryLength, now, uncaught >>
  /\ UNCHANGED chatVars

\* clearChat(): both states replaced, both entries removed (use-chat.ts:101-113).
ClearChat ==
  /\ uncaught = "none"
  /\ messages' = << ClearedMessage(now) >>
  /\ conversationHistory' = <<>>
  /\ storage' = [storage EXCEPT ![MessagesKey] = Absent,
                                ![ConversationKey] = Absent]
  /\ dirtyMessages' = TRUE
  /\ dirtyConversation' = TRUE
  /\ lastOp' = Op("clear", "", "", FALSE)
  /\ inserted' = << ClearedMessage(now) >>
  /\ insertedConv' = <<>>
  /\ convEvicted' = FALSE
  /\ earlierIds' = StillPossible(earlierIds \cup Ids(messages), now)
  /\ cleared' = TRUE
  /\ conversationShape' = "array"
  /\ UNCHANGED << maxHistoryLength, now, uncaught >>
  /\ UNCHANGED chatVars

\* The keys whose effect is due: its state changed in the last render.
DueKeys ==
  { k \in Keys : \/ k = MessagesKey /\ dirtyMessages
                 \/ k = ConversationKey /\ dirtyConversation }

\* What the effect of key k hands to setItem: JSON.stringify of its state.
Written(k) ==
  IF k = MessagesKey THEN StringifyMessages(messages)
  ELSE IF conversationShape = "object" THEN NonArray
  ELSE StringifyConversation(conversationHistory)

\* Mutant: only the messages effect exists.
RunEffectsMessagesOnly ==
  /\ uncaught = "none"
  /\ dirtyMessages \/ dirtyConversation
  /\ storage' = [ k \in AllKeys |->
                    IF k \in DueKeys /\ k = MessagesKey THEN Written(k)
                                                       ELSE storage[k] ]
  /\ dirtyMessages' = FALSE
  /\ dirtyConversation' = FALSE
  /\ UNCHANGED << maxHistoryLength, now, messages, conversationHistory, lastOp,
                  inserted, insertedConv, convEvicted, earlierIds, cleared,
                  conversationShape, uncaught >>
  /\ UNCHANGED chatVars

\* The two persistence effects of the last render (use-chat.ts:55-62).
RunEffects ==
  /\ uncaught = "none"
  /\ dirtyMessages \/ dirtyConversation
  /\ storage' = [ k \in AllKeys |-> IF k \in DueKeys THEN Written(k)
                                                   ELSE storage[k] ]
  /\ dirtyMessages' = FALSE
  /\ dirtyConversation' = FALSE
  /\ UNCHANGED << maxHistoryLength, now, messages, conversationHistory, lastOp,
                  inserted, insertedConv, convEvicted, earlierIds, cleared,
                  conversationShape, uncaught >>
  /\ UNCHANGED chatVars

\* The page is reloaded: the hook is mounted again on what storage holds.
Reload ==
  /\ messages' = InitialMessages(storage[MessagesKey], now)
  /\ conversationHistory' = InitialConversation(storage[ConversationKey])
  /\ dirtyMessages' = TRUE
  /\ dirtyConversation' = TRUE
  /\ lastOp' = Op("reload", storage[MessagesKey].kind,
                   storage[ConversationKey].kind,
                   ~dirtyMessages /\ ~dirtyConversation)
  /\ inserted' = InitialMessages(storage[MessagesKey], now)
  /\ insertedConv' = InitialConversation(storage[ConversationKey])
  /\ convEvicted' = (storage[ConversationKey].kind = "array"
                       /\ storage[ConversationKey].items # <<>>)
  /\ earlierIds' = StillPossible(earlierIds \cup Ids(messages), now)
  /\ conversationShape' = InitialConversationShape(storage[ConversationKey])
  /\ uncaught' = "none"
  /\ isTyping' = FALSE
  /\ error' = ""
  /\ pending' = <<>>
  /\ timers' = 0
  /\ analysisResult' = FALSE
  /\ seenLength' = NoLength
  /\ autoTriggers' = 0
  /\ UNCHANGED << maxHistoryLength, now, storage, cleared, isAuthenticated,
                  page >>

\* Time passes.
Tick ==
  /\ now < MaxTime
  /\ now' = now + 1
  /\ earlierIds' = StillPossible(earlierIds, now + 1)
  /\ UNCHANGED << maxHistoryLength, messages, conversationHistory, storage,
                  dirtyMessages, dirtyConversation, lastOp, inserted,
                  insertedConv, convEvicted, cleared, conversationShape,
                  uncaught >>
  /\ UNCHANGED chatVars

\* Calls made on this session: the seed is the first entry of inserted.
Calls == (Len(inserted) - 1) + Len(insertedConv) \div 2

AddStep ==
  \E input \in Inputs, r \in Rand :
    /\ Calls < MaxCalls
    /\ AddMessage(input, r)

UpdateStep ==
  \E x \in Exchanges :
    /\ Calls < MaxCalls
    /\ UpdateConversationHistory(x.user, x.bot)

Next ==
  \/ AddStep
  \/ UpdateStep
  \/ ClearChat
  \/ RunEffects
  \/ Reload
  \/ Tick

Spec == Init /\ [][Next]_vars

\* ---------------------------------------------- storage that misbehaves

\* The persistence effects when setItem throws for the keys in failing
\* (storage unavailable, quota exceeded). Neither effect has a try/catch
\* (use-chat.ts:55-62): the other effect still runs, the error is uncaught.
RunEffectsFailing(failing) ==
  /\ uncaught = "none"
  /\ failing # {}
  /\ failing \subseteq DueKeys
  /\ storage' = [ k \in AllKeys |-> IF k \in DueKeys \ failing THEN Written(k)
                                                             ELSE storage[k] ]
  /\ dirtyMessages' = FALSE
  /\ dirtyConversation' = FALSE
  /\ uncaught' = "setItem"
  /\ UNCHANGED << maxHistoryLength, now, messages, conversationHistory, lastOp,
                  inserted, insertedConv, convEvicted, earlierIds, cleared,
                  conversationShape >>
  /\ UNCHANGED chatVars

\* updateConversationHistory when the state is the non-array value a mount
\* parsed: the updater's [...prev, ...] throws (use-chat.ts:84-88).
UpdateConversationHistoryOnNonArray(userMessage, botResponse) ==
  /\ uncaught = "none"
  /\ conversationShape = "object"
  /\ uncaught' = "spread"
  /\ lastOp' = Op("update", userMessage, botResponse, FALSE)
  /\ UNCHANGED << maxHistoryLength, now, messages, conversationHistory, storage,
                  dirtyMessages, dirtyConversation, inserted, insertedConv,
                  convEvicted, earlierIds, cleared, conversationShape >>
  /\ UNCHANGED chatVars

\* A reload on which localStorage.getItem throws: both initializers call it
\* outside their try (use-chat.ts:21, 43), so the first render throws.
ReloadReadFails ==
  /\ messages' = <<>>
  /\ conversationHistory' = <<>>
  /\ dirtyMessages' = FALSE
  /\ dirtyConversation' = FALSE
  /\ lastOp' = Op("reload", "unreadable", "unreadable", FALSE)
  /\ inserted' = <<>>
  /\ insertedConv' = <<>>
  /\ convEvicted' = FALSE
  /\ earlierIds' = StillPossible(earlierIds \cup Ids(messages), now)
  /\ conversationShape' = "array"
  /\ uncaught' = "getItem"
  /\ isTyping' = FALSE
  /\ error' = ""
  /\ pending' = <<>>
  /\ timers' = 0
  /\ analysisResult' = FALSE
  /\ seenLength' = NoLength
  /\ autoTriggers' = 0
  /\ UNCHANGED << maxHistoryLength, now, storage, cleared, isAuthenticated,
                  page >>

\* Storage as another program, or an older version, may have left it.
InitFaulty ==
  \E cap \in 0..MaxCap, m \in {Absent, Garbage, NonArray},
     c \in {Absent, Garbage, NonArray} :
    /\ Mount(cap, StorageWith(m, c, LoggedIn("alice")), 0)
    /\ isAuthenticated = TRUE

EffectsFailStep == \E failing \in SUBSET Keys : RunEffectsFailing(failing)

UpdateOnNonArrayStep ==
  \E x \in Exchanges : UpdateConversationHistoryOnNonArray(x.user, x.bot)

NextFaulty ==
  \/ AddStep
  \/ UpdateStep
  \/ ClearChat
  \/ RunEffects
  \/ Reload
  \/ Tick
  \/ EffectsFailStep
  \/ UpdateOnNonArrayStep
  \/ ReloadReadFails

SpecFaulty == InitFaulty /\ [][NextFaulty]_vars

\* ------------------------------------------- the default configuration

\* useChat() as ChatBot.tsx calls it: the default cap, nothing stored yet.
InitDefault ==
  /\ Mount(DefaultMaxHistoryLength,
           StorageWith(Absent, Absent, LoggedIn("alice")), 0)
  /\ isAuthenticated = TRUE

\* The n-th call's argument: user and bot messages in turn.
DefaultInput(n) ==
  IF n % 2 = 1 THEN [content |-> "Hi", sender |-> "user"]
               ELSE [content |-> "Hello!", sender |-> "bot"]

DefaultAddStep ==
  \E r \in Rand :
    /\ Len(inserted) <= DefaultAdds
    /\ AddMessage(DefaultInput(Len(inserted)), r)

NextDefault ==
  \/ DefaultAddStep
  \/ RunEffects

SpecDefault == InitDefault /\ [][NextDefault]_vars

\* ------------------------------------------------- the ChatBot component

\* String.prototype.trim() on the inputs used here.
Trim(str) ==
  IF str = " " THEN "" ELSE IF str = "Hi " THEN "Hi" ELSE str

\* What the user may have typed when they press Enter or the send button.
InputValues == {" ", "Hi "}
\* response.message / response.advice of a successful response
Replies == {"Hello!"}
\* predicted_concerns.join(', ') of the analysis result used here
Concerns == "acne"

\* ChatBot.tsx:135
EventWelcomeText == "Hi! I'm SkinTel AI ... You have these concerns: acne. ..."
\* ChatBot.tsx:162
AdviceQuestion == "I've completed my skin analysis ...: acne. What should I do?"
\* ChatBot.tsx:177 and 212: the bot's message when a request failed
ErrorMessage(kind) ==
  IF kind = "advice"
    THEN "I'm having trouble analyzing your skin concerns right now. ..."
    ELSE "I'm having trouble connecting right now. ..."
\* ChatBot.tsx:179 and 214: setError(...) when a request failed
FailureError(kind) ==
  IF kind = "advice"
    THEN "Failed to get analysis-based advice. ..."
    ELSE "Failed to send message. ..."
\* ChatBot.tsx:154 and 187
LoginError(kind) ==
  IF kind = "advice"
    THEN "Please log in to get personalized skin advice."
    ELSE "Please log in to chat with the AI assistant."

\* A request on its way: which service call, the user message it is about,
\* and the conversation_history it carries (none for a skin-advice request).
Request(kind, text, history) ==
  [kind |-> kind, text |-> text, history |-> history]

RemoveAt(seq, i) == SubSeq(seq, 1, i - 1) \o SubSeq(seq, i + 1, Len(seq))

\* What the handlers below leave alone in the hook.
HookFrame ==
  UNCHANGED << maxHistoryLength, now, storage, cleared, conversationShape,
               uncaught, isAuthenticated, analysisResult, seenLength,
               autoTriggers, page >>

\* The state changes of one addMessage call made by a handler.
Adds(input, r) ==
  /\ messages' = AddMessageUpdater(messages, NewMessage(input, now, r),
                                   maxHistoryLength)
  /\ dirtyMessages' = TRUE
  /\ inserted' = Append(inserted, NewMessage(input, now, r))
  /\ earlierIds' = StillPossible(earlierIds \cup Ids(messages), now)

\* Mutant: handleSendMessage without its two early returns.
HandleSendMessageUnguarded(value, r) ==
  LET text == Trim(value)
  IN /\ uncaught = "none"
     /\ error' = ""
     /\ Adds([content |-> text, sender |-> "user"], r)
     /\ isTyping' = TRUE
     /\ pending' = Append(pending, Request("chat", text, conversationHistory))
     /\ lastOp' = Op("send", text, "chat", FALSE)
     /\ UNCHANGED << conversationHistory, dirtyConversation, insertedConv,
                     convEvicted, timers >>
     /\ HookFrame

\* Mutant: the request carries the log with the message being sent in it.
HandleSendMessageSendsOwnMessage(value, r) ==
  LET text == Trim(value)
  IN /\ uncaught = "none"
     /\ isAuthenticated
     /\ text # ""
     /\ error' = ""
     /\ Adds([content |-> text, sender |-> "user"], r)
     /\ isTyping' = TRUE
     /\ pending' = Append(pending,
          Request("chat", text,
                  Append(conversationHistory,
                         [role |-> "user", content |-> text])))
     /\ lastOp' = Op("send", text, "chat", FALSE)
     /\ UNCHANGED << conversationHistory, dirtyConversation, insertedConv,
                     convEvicted, timers >>
     /\ HookFrame

\* handleSendMessage with inputValue = value (ChatBot.tsx:185-218), up to
\* its await.
HandleSendMessage(value, r) ==
  LET text == Trim(value)
  IN /\ uncaught = "none"
     /\ IF ~isAuthenticated
          THEN /\ error' = LoginError("chat")
               /\ UNCHANGED << messages, dirtyMessages, inserted, earlierIds,
                               isTyping, pending, lastOp >>
          ELSE IF text = ""
          THEN UNCHANGED << messages, dirtyMessages, inserted, earlierIds,
                            isTyping, pending, lastOp, error >>
          ELSE /\ error' = ""
               /\ Adds([content |-> text, sender |-> "user"], r)
               /\ isTyping' = TRUE
               /\ pending' = Append(pending,
                                Request("chat", text, conversationHistory))
               /\ lastOp' = Op("send", text, "chat", FALSE)
     /\ UNCHANGED << conversationHistory, dirtyConversation, insertedConv,
                     convEvicted, timers >>
     /\ HookFrame

\* The 'openChatWithAnalysis' listener (ChatBot.tsx:130-143) for an analysis
\* result with concerns: a welcome message now, the advice request later.
HandleOpenChatWithAnalysis(r) ==
  /\ uncaught = "none"
  /\ Adds([content |-> EventWelcomeText, sender |-> "bot"], r)
  /\ timers' = timers + 1
  /\ lastOp' = Op("event", Concerns, "", FALSE)
  /\ UNCHANGED << conversationHistory, dirtyConversation, insertedConv,
                  convEvicted, isTyping, error, pending >>
  /\ HookFrame

\* A setTimeout callback runs handleAnalysisAdvice(concerns)
\* (ChatBot.tsx:139-141, 152-183), up to its await.
HandleAnalysisAdvice(r) ==
  /\ uncaught = "none"
  /\ timers > 0
  /\ timers' = timers - 1
  /\ IF ~isAuthenticated
       THEN /\ error' = LoginError("advice")
            /\ lastOp' = Op("refused", AdviceQuestion, "advice", FALSE)
            /\ UNCHANGED << messages, dirtyMessages, inserted, earlierIds,
                            isTyping, pending >>
       ELSE /\ error' = ""
            /\ isTyping' = TRUE
            /\ Adds([content |-> AdviceQuestion, sender |-> "user"], r)
            /\ pending' = Append(pending, Request("advice", AdviceQuestion, <<>>))
            /\ lastOp' = Op("send", AdviceQuestion, "advice", FALSE)
  /\ UNCHANGED << conversationHistory, dirtyConversation, insertedConv,
                  convEvicted >>
  /\ HookFrame

\* Mutant: the updater is applied to the list the request was sent with.
PrevOfUpdaterAtSend(req) == req.history

\* The list the setConversationHistory updater is applied to when the
\* response of req is handled: React hands the updater the current state
\* (use-chat.ts:84).
PrevOfUpdater(req) == conversationHistory

\* The i-th outstanding request is answered with success and this reply: the
\* rest of its handler runs (ChatBot.tsx:168-171 / 204-206, and finally).
CompleteSuccess(i, reply, r) ==
  LET req == pending[i]
      result == ConversationUpdater(PrevOfUpdater(req), req.text, reply,
                                    maxHistoryLength)
  IN /\ uncaught = "none"
     /\ conversationShape = "array"
     /\ Adds([content |-> reply, sender |-> "bot"], r)
     /\ conversationHistory' = result
     /\ dirtyConversation' = TRUE
     /\ insertedConv' = insertedConv \o
          << [role |-> "user", content |-> req.text],
             [role |-> "assistant", content |-> reply] >>
     /\ convEvicted' = (convEvicted \/ Len(result) < Len(conversationHistory) + 2)
     /\ isTyping' = FALSE
     /\ pending' = RemoveAt(pending, i)
     /\ lastOp' = Op("completed", req.text, reply, FALSE)
     /\ UNCHANGED << error, timers >>
     /\ HookFrame

\* Mutant: the catch branch and the finally block both report the failure.
CompleteFailureAnswersTwice(i, r) ==
  LET req == pending[i]
      answer == NewMessage([content |-> ErrorMessage(req.kind),
                            sender |-> "bot"], now, r)
  IN /\ uncaught = "none"
     /\ messages' = AddMessageUpdater(
                      AddMessageUpdater(messages, answer, maxHistoryLength),
                      answer, maxHistoryLength)
     /\ dirtyMessages' = TRUE
     /\ inserted' = inserted \o << answer, answer >>
     /\ earlierIds' = StillPossible(earlierIds \cup Ids(messages), now)
     /\ error' = FailureError(req.kind)
     /\ isTyping' = FALSE
     /\ pending' = RemoveAt(pending, i)
     /\ lastOp' = Op("failed", req.text, req.kind, FALSE)
     /\ UNCHANGED << conversationHistory, dirtyConversation, insertedConv,
                     convEvicted, timers >>
     /\ HookFrame

\* Mutant: a failed request still records its user message in the log.
CompleteFailureLogsUser(i, r) ==
  LET req == pending[i]
  IN /\ uncaught = "none"
     /\ Adds([content |-> ErrorMessage(req.kind), sender |-> "bot"], r)
     /\ conversationHistory' =
          Append(conversationHistory, [role |-> "user", content |-> req.text])
     /\ error' = FailureError(req.kind)
     /\ isTyping' = FALSE
     /\ pending' = RemoveAt(pending, i)
     /\ lastOp' = Op("failed", req.text, req.kind, FALSE)
     /\ UNCHANGED << dirtyConversation, insertedConv, convEvicted, timers >>
     /\ HookFrame

\* The i-th outstanding request is rejected, or answered with success =
\* false: the catch branch runs (ChatBot.tsx:175-182 / 210-217).
CompleteFailure(i, r) ==
  LET req == pending[i]
  IN /\ uncaught = "none"
     /\ Adds([content |-> ErrorMessage(req.kind), sender |-> "bot"], r)
     /\ error' = FailureError(req.kind)
     /\ isTyping' = FALSE
     /\ pending' = RemoveAt(pending, i)
     /\ lastOp' = Op("failed", req.text, req.kind, FALSE)
     /\ UNCHANGED << conversationHistory, dirtyConversation, insertedConv,
                     convEvicted, timers >>
     /\ HookFrame

\* handleClearChat: clearChat() and setError(null) (ChatBot.tsx:224-227).
\* Requests on their way and timers are not cancelled.
HandleClearChat ==
  /\ uncaught = "none"
  /\ messages' = << ClearedMessage(now) >>
  /\ conversationHistory' = <<>>
  /\ storage' = [storage EXCEPT ![MessagesKey] = Absent,
                                ![ConversationKey] = Absent]
  /\ dirtyMessages' = TRUE
  /\ dirtyConversation' = TRUE
  /\ lastOp' = Op("clear", "", "", FALSE)
  /\ inserted' = << ClearedMessage(now) >>
  /\ insertedConv' = <<>>
  /\ convEvicted' = FALSE
  /\ earlierIds' = StillPossible(earlierIds \cup Ids(messages), now)
  /\ cleared' = TRUE
  /\ conversationShape' = "array"
  /\ error' = ""
  /\ UNCHANGED << maxHistoryLength, now, uncaught, isAuthenticated, isTyping,
                  pending, timers, analysisResult, seenLength, autoTriggers,
                  page >>

\* ChatBot as Dashboard mounts it: useChat() with its defaults, on a first
\* visit; the user is logged in or not.
InitChat ==
  /\ \/ /\ isAuthenticated = TRUE
        /\ Mount(DefaultMaxHistoryLength,
                 StorageWith(Absent, Absent, LoggedIn("alice")), 0)
     \/ /\ isAuthenticated = FALSE
        /\ Mount(DefaultMaxHistoryLength,
                 StorageWith(Absent, Absent, LoggedOut), 0)

\* Enter in the input or a click on the send button: both exist only for a
\* logged-in user and are disabled while isTyping (ChatBot.tsx:390-419).
\* React runs the effects of a render before it renders again.
EffectsDone == ~dirtyMessages /\ ~dirtyConversation

SendStep ==
  \E value \in InputValues, r \in Rand :
    /\ isAuthenticated
    /\ ~isTyping
    /\ EffectsDone
    /\ Len(inserted) <= MaxInserted
    /\ Len(pending) + timers < MaxRequests
    /\ HandleSendMessage(value, r)

\* "Ask AI" on an analysis result (ProgressSummary.tsx:192-198).
EventStep ==
  \E r \in Rand :
    /\ EffectsDone
    /\ Len(inserted) < MaxInserted
    /\ Len(pending) + timers < MaxRequests
    /\ HandleOpenChatWithAnalysis(r)

TimerStep == \E r \in Rand : EffectsDone /\ HandleAnalysisAdvice(r)

SuccessStep ==
  \E i \in 1..Len(pending), reply \in Replies, r \in Rand :
    EffectsDone /\ CompleteSuccess(i, reply, r)

FailureStep ==
  \E i \in 1..Len(pending), r \in Rand : EffectsDone /\ CompleteFailure(i, r)

ClearStep == EffectsDone /\ HandleClearChat

NextChat ==
  \/ SendStep
  \/ EventStep
  \/ TimerStep
  \/ SuccessStep
  \/ FailureStep
  \/ ClearStep
  \/ RunEffects

SpecChat == InitChat /\ [][NextChat]_vars

\* handleSendMessage called although the user is not logged in (the input
\* and the send button that call it are rendered for a logged-in user only).
DirectSendStep ==
  \E value \in InputValues, r \in Rand :
    /\ ~isAuthenticated
    /\ EffectsDone
    /\ HandleSendMessage(value, r)

NextHandlers ==
  \/ SendStep
  \/ DirectSendStep
  \/ EventStep
  \/ TimerStep
  \/ SuccessStep
  \/ FailureStep
  \/ ClearStep
  \/ RunEffects

SpecHandlers == InitChat /\ [][NextHandlers]_vars

\* --------------------------------------- the analysis auto-trigger effect

\* ChatBot.tsx:116
AutoWelcomeText == "Hello! I'm SkinTel AI ... I detected these concerns: acne. ..."

\* Dashboard hands an analysis result with concerns to ChatBot
\* (Dashboard.tsx:70, 291-292).
AnalysisArrives ==
  /\ uncaught = "none"
  /\ ~analysisResult
  /\ analysisResult' = TRUE
  /\ seenLength' = NoLength
  /\ autoTriggers' = 0
  /\ UNCHANGED << maxHistoryLength, now, messages, conversationHistory, storage,
                  dirtyMessages, dirtyConversation, lastOp, inserted,
                  insertedConv, convEvicted, earlierIds, cleared,
                  conversationShape, uncaught, isAuthenticated, isTyping,
                  error, pending, timers, page >>

\* The effect's dependencies [analysisResult, messages.length] differ from
\* those of its last run (ChatBot.tsx:126).
AnalysisEffectDue == analysisResult /\ seenLength # Len(messages)

\* The auto-trigger effect runs (ChatBot.tsx:113-126): with at most one
\* message in the list it adds its welcome message and arms the timer that
\* will ask for the advice.
AnalysisEffect(r) ==
  /\ uncaught = "none"
  /\ AnalysisEffectDue
  /\ seenLength' = Len(messages)
  /\ IF Len(messages) <= 1
       THEN /\ Adds([content |-> AutoWelcomeText, sender |-> "bot"], r)
            /\ timers' = timers + 1
            /\ autoTriggers' = Min(autoTriggers + 1, 2)
            /\ lastOp' = Op("auto", Concerns, "", FALSE)
       ELSE UNCHANGED << messages, dirtyMessages, inserted, earlierIds, timers,
                         autoTriggers, lastOp >>
  /\ UNCHANGED << maxHistoryLength, now, conversationHistory, storage,
                  dirtyConversation, insertedConv, convEvicted, cleared,
                  conversationShape, uncaught, isAuthenticated, isTyping,
                  error, pending, analysisResult, page >>

AnalysisEffectStep == \E r \in Rand : AnalysisEffect(r)

\* A logged-in user on the dashboard, first visit.
InitAnalysis ==
  /\ Mount(DefaultMaxHistoryLength,
           StorageWith(Absent, Absent, LoggedIn("alice")), 0)
  /\ isAuthenticated = TRUE

\* The clear button, while there is room for the request a clear may bring.
BoundedClearStep ==
  /\ Len(pending) + timers < MaxRequests
  /\ ClearStep

\* An effect that is due runs before anything else happens to the component.
NextAnalysis ==
  \/ AnalysisEffectStep
  \/ RunEffects
  \/ ~AnalysisEffectDue /\ AnalysisArrives
  \/ ~AnalysisEffectDue /\ SendStep
  \/ ~AnalysisEffectDue /\ TimerStep
  \/ ~AnalysisEffectDue /\ SuccessStep
  \/ ~AnalysisEffectDue /\ FailureStep
  \/ ~AnalysisEffectDue /\ BoundedClearStep

SpecAnalysis == InitAnalysis /\ [][NextAnalysis]_vars

\* ------------------------------------------------ logging out and in

\* authService.isAuthenticated(): !!localStorage.getItem('token')
\* (api.ts:214-216).
AuthServiceIsAuthenticated == storage[TokenKey] # Absent

\* Mutant: localStorage.clear() instead of the two removeItem calls.
RemoveAuthClearsAll(st) == [k \in AllKeys |-> Absent]

\* removeItem('token'); removeItem('user') (api.ts:205-206 and 26-27).
RemoveAuth(st) == [st EXCEPT ![TokenKey] = Absent, ![UserKey] = Absent]

\* The dashboard is left: ChatBot and its hook state are gone, the callbacks
\* of its requests and timers change nothing any more, effects that have not
\* run never run. messages and conversationHistory stay as the record of
\* what the component held last.
Unmounted ==
  /\ page' = "login"
  /\ isAuthenticated' = FALSE
  /\ dirtyMessages' = FALSE
  /\ dirtyConversation' = FALSE
  /\ isTyping' = FALSE
  /\ error' = ""
  /\ pending' = <<>>
  /\ timers' = 0
  /\ analysisResult' = FALSE
  /\ seenLength' = NoLength
  /\ autoTriggers' = 0
  /\ UNCHANGED << maxHistoryLength, now, messages, conversationHistory,
                  inserted, insertedConv, convEvicted, earlierIds, cleared,
                  conversationShape, uncaught >>

\* The logout button of the dashboard (Dashboard.tsx:88-94) ends in
\* authService.logout() (api.ts:204-207).
Logout ==
  /\ page = "dashboard"
  /\ uncaught = "none"
  /\ EffectsDone
  /\ storage' = RemoveAuth(storage)
  /\ lastOp' = Op("logout", "", "", FALSE)
  /\ Unmounted

\* A user logs in (api.ts:189-193) and the dashboard mounts ChatBot, whose
\* hook initializes from storage (use-chat.ts:20-52).
Login(u) ==
  LET st == [storage EXCEPT ![TokenKey] = TokenOf(u), ![UserKey] = UserOf(u)]
  IN /\ page = "login"
     /\ storage' = st
     /\ page' = "dashboard"
     /\ isAuthenticated' = TRUE
     /\ messages' = InitialMessages(st[MessagesKey], now)
     /\ conversationHistory' = InitialConversation(st[ConversationKey])
     /\ dirtyMessages' = TRUE
     /\ dirtyConversation' = TRUE
     /\ lastOp' = Op("login", st[MessagesKey].kind, st[ConversationKey].kind,
                      FALSE)
     /\ inserted' = InitialMessages(st[MessagesKey], now)
     /\ insertedConv' = InitialConversation(st[ConversationKey])
     /\ convEvicted' = (st[ConversationKey].kind = "array"
                          /\ st[ConversationKey].items # <<>>)
     /\ earlierIds' = StillPossible(earlierIds \cup Ids(messages), now)
     /\ conversationShape' = InitialConversationShape(st[ConversationKey])
     /\ uncaught' = "none"
     /\ UNCHANGED << maxHistoryLength, now, cleared, isTyping, error, pending,
                     timers, analysisResult, seenLength, autoTriggers >>

\* Mutant: the 401 handler resolves instead of rejecting, the caller's catch
\* branch does not run.
CompleteUnauthorizedSwallowed(i, r) ==
  LET req == pending[i]
  IN /\ uncaught = "none"
     /\ page # "login"
     /\ storage' = RemoveAuth(storage)
     /\ page' = "leaving"
     /\ isTyping' = FALSE
     /\ pending' = RemoveAt(pending, i)
     /\ lastOp' = Op("unauthorized", req.text, req.kind, FALSE)
     /\ UNCHANGED << messages, dirtyMessages, inserted, earlierIds, error,
                     conversationHistory, dirtyConversation, insertedConv,
                     convEvicted, timers >>
     /\ UNCHANGED << maxHistoryLength, now, cleared, conversationShape,
                     uncaught, isAuthenticated, analysisResult, seenLength,
                     autoTriggers >>

\* The response to request i has status 401: the response interceptor removes
\* the login entries, assigns window.location.href and rejects
\* (api.ts:22-33); the rejection reaches the caller's catch and finally
\* branches (ChatBot.tsx:176-182 and 209-217).
CompleteUnauthorized(i, r) ==
  LET req == pending[i]
  IN /\ uncaught = "none"
     /\ page # "login"
     /\ storage' = RemoveAuth(storage)
     /\ page' = "leaving"
     /\ Adds([content |-> ErrorMessage(req.kind), sender |-> "bot"], r)
     /\ error' = FailureError(req.kind)
     /\ isTyping' = FALSE
     /\ pending' = RemoveAt(pending, i)
     /\ lastOp' = Op("unauthorized", req.text, req.kind, FALSE)
     /\ UNCHANGED << conversationHistory, dirtyConversation, insertedConv,
                     convEvicted, timers >>
     /\ UNCHANGED << maxHistoryLength, now, cleared, conversationShape,
                     uncaught, isAuthenticated, analysisResult, seenLength,
                     autoTriggers >>

\* The navigation to /login started by the 401 handler completes: the
\* document with ChatBot in it is unloaded, whether or not its last effects
\* have run.
Arrive ==
  /\ page = "leaving"
  /\ lastOp' = Op("arrive", "", "", ~dirtyMessages /\ ~dirtyConversation)
  /\ UNCHANGED storage
  /\ Unmounted

\* A logged-in user on the dashboard, first visit.
InitAuth ==
  /\ Mount(DefaultMaxHistoryLength,
           StorageWith(Absent, Absent, LoggedIn("alice")), 0)
  /\ isAuthenticated = TRUE

AuthSendStep == Len(messages) <= MaxInserted /\ SendStep

AuthClearStep == page # "login" /\ ClearStep

UnauthorizedStep ==
  \E i \in 1..Len(pending), r \in Rand :
    EffectsDone /\ CompleteUnauthorized(i, r)

LoginStep == \E u \in Users : Login(u)

NextAuth ==
  \/ AuthSendStep
  \/ SuccessStep
  \/ FailureStep
  \/ UnauthorizedStep
  \/ AuthClearStep
  \/ RunEffects
  \/ Logout
  \/ Arrive
  \/ LoginStep

SpecAuth == InitAuth /\ [][NextAuth]_vars

\* ------------------------------------------------------------ properties

\* The newest n entries of s, oldest first.
LastN(s, n) ==
  LET k == Min(n, Len(s))
  IN [ i \in 1..k |-> s[Len(s) - k + i] ]

\* id, content and sender of every message, in order.
Project(msgs) ==
  [ i \in 1..Len(msgs) |->
    [ id |-> msgs[i].id, content |-> msgs[i].content,
      sender |-> msgs[i].sender ] ]

StoredMessages == storage[MessagesKey]
StoredConversation == storage[ConversationKey]

\* C1: with the default cap of 50, the Message list is the insertion-order
\* sequence (the welcome message, then the added messages in call order) cut
\* from the front to its newest 50 entries; after 55 adds the list holds the
\* newest 50, oldest first, and the welcome message and the 5 oldest adds are
\* gone.
C1_InsertionOrderTruncated ==
  /\ messages = LastN(inserted, DefaultMaxHistoryLength)
  /\ Len(inserted) = 56 =>
       /\ Len(messages) = 50
       /\ \A i \in 1..50 : messages[i] = inserted[i + 6]
       /\ messages[1].id # IdInitial

C1_Witness ==
  /\ maxHistoryLength = DefaultMaxHistoryLength
  /\ lastOp.op = "add"
  /\ Len(inserted) = 56
  /\ Len(messages) = 50

\* C2: for every cap, 0 and 1 included, the Message list is no longer than
\* the cap after each addMessage.
C2_CapRespected ==
  lastOp.op = "add" => Len(messages) <= maxHistoryLength

\* C3: each updateConversationHistory(u, a) call leaves {user, u} followed by
\* {assistant, a} as the last two entries of the Exchange log; from an empty
\* log, after N calls none of which evicted, the log is the 2N entries of
\* these calls in call order, user at every even (0-based) index and
\* assistant at every odd one.
C3_PairsAppended ==
  /\ lastOp.op = "update" =>
       /\ Len(conversationHistory) >= 2
       /\ conversationHistory[Len(conversationHistory) - 1]
            = [role |-> "user", content |-> lastOp.a]
       /\ conversationHistory[Len(conversationHistory)]
            = [role |-> "assistant", content |-> lastOp.b]
  /\ ~convEvicted =>
       /\ conversationHistory = insertedConv
       /\ \A i \in 1..Len(conversationHistory) :
            conversationHistory[i].role =
              (IF i % 2 = 1 THEN "user" ELSE "assistant")

C3_Witness ==
  /\ lastOp.op = "update"
  /\ ~convEvicted
  /\ maxHistoryLength >= 4
  /\ Len(conversationHistory) = 4

\* C4: for every cap (even, odd, 0 or 1) and after any sequence of
\* updateConversationHistory and clearChat calls on a log that started empty,
\* the Exchange log has an even number of entries and, when not empty, starts
\* with a user entry.
C4_WholePairs ==
  /\ Len(conversationHistory) % 2 = 0
  /\ conversationHistory # <<>> => conversationHistory[1].role = "user"

C4_Witness ==
  /\ maxHistoryLength = 3
  /\ lastOp.op = "update"
  /\ convEvicted
  /\ Len(conversationHistory) = 2

\* C5: for every cap c, after each updateConversationHistory the Exchange log
\* holds at most floor(c/2) pairs, so at most c entries, and is the most
\* recent pairs in call order.
C5_ExchangeCapRespected ==
  lastOp.op = "update" =>
    /\ Len(conversationHistory) <= 2 * Floor2(maxHistoryLength)
    /\ Len(conversationHistory) <= maxHistoryLength
    /\ conversationHistory = LastN(insertedConv, 2 * Floor2(maxHistoryLength))

\* C6: clearChat leaves a Message list of exactly one message, the "Chat
\* cleared" message with sender bot, and an empty Exchange log.
C6_ClearResets ==
  lastOp.op = "clear" =>
    /\ Len(messages) = 1
    /\ messages[1].content = ClearedText
    /\ messages[1].sender = "bot"
    /\ conversationHistory = <<>>

C6_Witness ==
  /\ lastOp.op = "clear"
  /\ Cardinality(earlierIds) >= 2

\* C7: the message clearChat creates has an id that no earlier message of the
\* session had: not the seeded welcome message, not a message of addMessage,
\* not the message of an earlier clearChat.
C7_ClearIdFresh ==
  lastOp.op = "clear" => messages[1].id \notin earlierIds

\* C8: once clearChat has been called, a reload restores only messages and
\* exchanges put into the session since that clearChat (or seeds the welcome
\* message afresh), whether it comes before or after the effects have
\* written the cleared state back; clearChat itself leaves both storage
\* entries removed and both effects due.
C8_NoPreClearRestored ==
  [][ /\ (cleared /\ Reload) =>
           /\ Range(messages') \subseteq
                Range(inserted) \cup {WelcomeMessage(now)}
           /\ Range(conversationHistory') \subseteq Range(insertedConv)
      /\ ClearChat =>
           /\ StoredMessages' = Absent
           /\ StoredConversation' = Absent
           /\ dirtyMessages' /\ dirtyConversation'
      /\ (lastOp.op = "clear" /\ RunEffects) =>
           /\ StoredMessages' = StringifyMessages(messages)
           /\ StoredConversation' = StringifyConversation(conversationHistory)
    ]_vars

C8_Witness ==
  /\ cleared
  /\ lastOp.op = "reload"
  /\ lastOp.a = "array"
  /\ Len(messages) >= 2
  /\ messages[1].content = ClearedText

\* C9: a reload of a session whose state has been persisted (both effects
\* have run) gives a Message list with the same ids, contents and senders in
\* the same order, and the same Exchange log.
C9_RoundTrip ==
  [][ (Reload /\ ~dirtyMessages /\ ~dirtyConversation) =>
        /\ Project(messages') = Project(messages)
        /\ conversationHistory' = conversationHistory
    ]_vars

C9_Witness ==
  /\ lastOp.op = "reload"
  /\ lastOp.synced
  /\ Len(messages) >= 2
  /\ Len(conversationHistory) >= 2

\* C10: mounted on a messages key that is absent or unparsable, the Message
\* list is the one default welcome message, sender bot; mounted on a
\* conversation key that is absent or unparsable, the Exchange log is empty.
C10_SeededOnBadStorage ==
  lastOp.op \in {"init", "reload"} =>
    /\ lastOp.a \in {"absent", "garbage"} =>
         /\ Len(messages) = 1
         /\ messages[1].id = IdInitial
         /\ messages[1].content = WelcomeText
         /\ messages[1].sender = "bot"
    /\ lastOp.b \in {"absent", "garbage"} => conversationHistory = <<>>

C10_Witness ==
  /\ lastOp.op = "reload"
  /\ lastOp.a = "garbage"
  /\ lastOp.b = "garbage"

\* C11: a persistence write that fails is never surfaced: no error escapes
\* the hook to its caller or to the component that renders it, whatever the
\* effects' setItem calls do.
C11_WriteFailureAbsorbed ==
  lastOp.op \in {"add", "update", "clear"} => uncaught # "setItem"

\* C12: stored data that is no well-formed serialization of its log
\* (unparsable text, JSON that is no array, a read that fails) counts as
\* absent: the mount yields the seeded Message list, respectively the empty
\* Exchange log, and no later addMessage or updateConversationHistory fails.
C12_MalformedTreatedAsAbsent ==
  /\ lastOp.op \in {"init", "reload"} =>
       /\ lastOp.a \in {"garbage", "object", "unreadable"} =>
            /\ Len(messages) = 1
            /\ messages[1].id = IdInitial
            /\ messages[1].content = WelcomeText
       /\ lastOp.b \in {"garbage", "object", "unreadable"} =>
            /\ conversationHistory = <<>>
            /\ conversationShape = "array"
  /\ uncaught \notin {"getItem", "spread"}

\* C13: in every quiescent state (every update rendered, the effects of the
\* last render run, no write failed) the value stored under the messages key
\* is the serialization of the current Message list and the value under the
\* conversation key is the serialization of the current Exchange log.
C13_PersistedWhenQuiescent ==
  (~dirtyMessages /\ ~dirtyConversation /\ uncaught = "none") =>
    /\ StoredMessages = StringifyMessages(messages)
    /\ StoredConversation = StringifyConversation(conversationHistory)

C13_Witness ==
  /\ ~dirtyMessages
  /\ ~dirtyConversation
  /\ lastOp.op = "update"
  /\ Len(messages) >= 2
  /\ Len(conversationHistory) >= 2

\* The log is a sequence of whole exchanges: user entry, assistant entry.
WholePairs(hist) ==
  /\ Len(hist) % 2 = 0
  /\ \A i \in 1..Len(hist) :
       hist[i].role = (IF i % 2 = 1 THEN "user" ELSE "assistant")

Last(s) == s[Len(s)]

\* C14: the Exchange log holds whole user/assistant pairs only, and it gains
\* one only when a request is answered with success: starting a chat or
\* advice request appends the user message to the Message list and leaves
\* the Exchange log alone, and a failed (or success = false) request leaves
\* the Exchange log alone and appends one bot error message to the Message
\* list.
C14_OnlyCompletePairs ==
  /\ [] WholePairs(conversationHistory)
  /\ [][ /\ (SendStep \/ TimerStep \/ EventStep) =>
              conversationHistory' = conversationHistory
         /\ ((SendStep \/ TimerStep) /\ pending' # pending) =>
              /\ pending' = Append(pending, Last(pending'))
              /\ messages' = Append(messages, Last(messages'))
              /\ Last(messages').sender = "user"
              /\ Last(messages').content = Last(pending').text
         /\ FailureStep =>
              /\ conversationHistory' = conversationHistory
              /\ messages' = Append(messages, Last(messages'))
              /\ Last(messages').sender = "bot"
              /\ Last(messages').content = ErrorMessage(lastOp'.b)
         /\ (conversationHistory' # conversationHistory
               /\ ~HandleClearChat) =>
              /\ SuccessStep
              /\ conversationHistory' = conversationHistory \o
                   << [role |-> "user", content |-> lastOp'.a],
                      [role |-> "assistant", content |-> lastOp'.b] >>
       ]_vars

C14_Witness ==
  /\ lastOp.op = "failed"
  /\ Len(conversationHistory) = 2
  /\ Len(pending) = 0
  /\ Len(messages) >= 5

\* s with its first n entries dropped.
Drop(s, n) == SubSeq(s, n + 1, Len(s))

\* C15: messages are never edited or reordered. addMessage changes the list
\* only by evicting entries from its head and appending the new message at
\* its tail, so every message that stays keeps its id, content, sender and
\* timestamp and its order relative to the others that stay;
\* updateConversationHistory leaves the list as it is; clearChat replaces it
\* as a whole.
C15_AppendOrEvictOnly ==
  [][ /\ AddStep =>
           \E n \in 0..Len(messages) :
             /\ Len(messages') = Len(messages) - n + 1
             /\ Drop(messages, n) = SubSeq(messages', 1, Len(messages) - n)
             /\ Last(messages') = Last(inserted')
      /\ UpdateStep => messages' = messages
      /\ ClearChat => messages' = << ClearedMessage(now) >>
     ]_vars

C15_Witness ==
  /\ lastOp.op = "add"
  /\ Len(inserted) = 4
  /\ Len(messages) = 3
  /\ messages[1].content # WelcomeText

\* Storage holds the serialization of both logs as they are now.
StorageCurrent ==
  /\ StoredMessages = StringifyMessages(messages)
  /\ StoredConversation = StringifyConversation(conversationHistory)

Shown(msgs) ==
  [ i \in 1..Len(msgs) |->
    [ content |-> msgs[i].content, sender |-> msgs[i].sender ] ]

\* The calls of the scenario have been made on a fresh session, in order.
ScenarioCalled ==
  /\ ~cleared
  /\ Shown(inserted) = << [content |-> WelcomeText, sender |-> "bot"],
                          [content |-> "Hi", sender |-> "user"],
                          [content |-> "Hello!", sender |-> "bot"] >>
  /\ insertedConv = << [role |-> "user", content |-> "Hi"],
                       [role |-> "assistant", content |-> "Hello!"] >>

\* C17: addMessage leaves the Exchange log as it is and
\* updateConversationHistory leaves the Message list as it is; so after
\* addMessage(Hi, user), addMessage(Hello!, bot) and
\* updateConversationHistory(Hi, Hello!) on a fresh session (with a cap that
\* holds three messages) the Message list is welcome, Hi (user), Hello! (bot)
\* and the Exchange log is {user, Hi}, {assistant, Hello!}.
C17_DisjointLogs ==
  /\ [] ((ScenarioCalled /\ maxHistoryLength >= 3) =>
           /\ Shown(messages) =
                << [content |-> WelcomeText, sender |-> "bot"],
                   [content |-> "Hi", sender |-> "user"],
                   [content |-> "Hello!", sender |-> "bot"] >>
           /\ messages[1].id = IdInitial
           /\ conversationHistory =
                << [role |-> "user", content |-> "Hi"],
                   [role |-> "assistant", content |-> "Hello!"] >>)
  /\ [][ /\ AddStep => conversationHistory' = conversationHistory
         /\ UpdateStep => messages' = messages
       ]_vars

C17_Witness ==
  /\ ScenarioCalled
  /\ maxHistoryLength >= 3
  /\ lastOp = Op("update", "Hi", "Hello!", FALSE)
  /\ Len(messages) = 3

\* C18: addMessage returns the message it has built, and for every cap of
\* at least 1 that message, with the same id, content, sender and timestamp,
\* is the last element of the Message list once the update is applied.
C18_ReturnedIsLast ==
  [][ \A input \in Inputs, r \in Rand :
        (AddMessage(input, r) /\ maxHistoryLength >= 1) =>
          /\ messages' # <<>>
          /\ Last(messages') = NewMessage(input, now, r)
          /\ Last(messages').content = input.content
          /\ Last(messages').sender = input.sender
    ]_vars

C18_Witness ==
  /\ lastOp.op = "add"
  /\ maxHistoryLength = 1
  /\ Len(messages) = 1
  /\ Len(inserted) >= 3
  /\ Last(messages) = Last(inserted)

\* C19: requests that overlap are serialized by the order of their
\* completions, and nothing is lost: every successful completion appends
\* its own user/assistant pair, adjacent, at the end of the Exchange log as
\* it is at that moment, so the log is the sequence of the pairs of the
\* successful completions since the session's start or its last clear, in
\* completion order.
C19_SerializedByCompletion ==
  /\ [] (conversationHistory = insertedConv)
  /\ [][ \A i \in 1..Len(pending), reply \in Replies, r \in Rand :
           CompleteSuccess(i, reply, r) =>
             conversationHistory' = conversationHistory \o
               << [role |-> "user", content |-> pending[i].text],
                  [role |-> "assistant", content |-> reply] >>
       ]_vars

\* A chat request was sent, then an advice request; the advice request was
\* answered first, then the chat request.
C19_Witness ==
  /\ lastOp.op = "completed"
  /\ Len(messages) = 6
  /\ messages[2].content = "Hi"
  /\ messages[4].content = AdviceQuestion
  /\ messages[5].sender = "bot"
  /\ Len(conversationHistory) = 4
  /\ conversationHistory[1].content = AdviceQuestion
  /\ conversationHistory[3].content = "Hi"

\* C20: whenever a chat or skin-advice request has been sent and has not
\* completed, isTyping is true.
C20_TypingWhileOutstanding == pending # <<>> => isTyping

\* C21: the conversation history a chat request carries is the Exchange log
\* as it stands when the message is sent: the pairs of the requests answered
\* with success before the send (since the session's start or its last
\* clear), in order; the message being sent is not in it, and sending does
\* not put it into the log.
C21_HistoryAsAtSend ==
  [][ \A value \in InputValues, r \in Rand :
        (HandleSendMessage(value, r) /\ pending' # pending) =>
          /\ Last(pending').kind = "chat"
          /\ Last(pending').text = Trim(value)
          /\ Last(pending').history = conversationHistory
          /\ Last(pending').history = insertedConv
          /\ conversationHistory' = conversationHistory
    ]_vars

\* A chat request was sent after an earlier request had been answered.
C21_Witness ==
  /\ lastOp = Op("send", "Hi", "chat", FALSE)
  /\ pending # <<>>
  /\ Last(pending).kind = "chat"
  /\ Len(Last(pending).history) = 2
  /\ Last(pending).history = conversationHistory

\* C22: the hook touches only its two storage entries: mounting, addMessage,
\* updateConversationHistory, clearChat and the persistence effects leave
\* every other key, token and user among them, as it is.
C22_OnlyOwnKeys ==
  [][ /\ DOMAIN storage' = DOMAIN storage
      /\ \A k \in DOMAIN storage \ Keys : storage'[k] = storage[k]
    ]_vars

\* The session was cleared, written by the effects and mounted again, and
\* the login entries are still there.
C22_Witness ==
  /\ cleared
  /\ lastOp.op = "reload"
  /\ lastOp.a = "array"
  /\ storage[TokenKey] = TokenOf("alice")
  /\ storage[UserKey] = UserOf("alice")

\* The bot messages that answer a request: a reply or one of the error texts.
IsAnswer(msg) ==
  /\ msg.sender = "bot"
  /\ msg.content \in Replies \cup {ErrorMessage("chat"), ErrorMessage("advice")}

\* Every answer in msgs has its own user message before it.
AnswersFollowQuestions(msgs) ==
  \A p \in 1..Len(msgs) :
    Cardinality({ i \in 1..p : IsAnswer(msgs[i]) })
      <= Cardinality({ i \in 1..p : msgs[i].sender = "user" })

\* Every user entry of hist is the text of a user message of msgs.
ExchangesOf(hist, msgs) ==
  \A i \in 1..Len(hist) :
    hist[i].role = "user" =>
      \E j \in 1..Len(msgs) : /\ msgs[j].sender = "user"
                               /\ msgs[j].content = hist[i].content

\* C23: after clearChat the session and the persisted copy hold nothing of a
\* turn started before the clear, also when a request sent before the clear
\* is answered after it: every answer in the Message list follows a user
\* message sent since the clear, and every exchange in the Exchange log is
\* that of a user message sent since the clear.
C23_NothingFromBeforeClear ==
  cleared =>
    /\ AnswersFollowQuestions(messages)
    /\ ExchangesOf(conversationHistory, inserted)
    /\ StoredMessages.kind = "array" =>
         AnswersFollowQuestions(StoredMessages.items)
    /\ StoredConversation.kind = "array" =>
         ExchangesOf(StoredConversation.items, inserted)

\* C24: a request that completes is answered exactly once and releases the
\* typing state: the step that handles its response takes it off the
\* outstanding requests, appends exactly one bot message (the reply, or the
\* error text of its kind) and sets isTyping to false; no other step adds an
\* answer or an exchange, so a request that never completes gets neither.
C24_AnsweredOnce ==
  [][ /\ (SuccessStep \/ FailureStep) =>
           /\ messages' = Append(messages, Last(messages'))
           /\ IsAnswer(Last(messages'))
           /\ \E i \in 1..Len(pending) :
                /\ pending' = RemoveAt(pending, i)
                /\ Last(messages').content \in
                     Replies \cup {ErrorMessage(pending[i].kind)}
           /\ ~isTyping'
      /\ ~(SuccessStep \/ FailureStep) =>
           /\ Len(pending') >= Len(pending)
           /\ conversationHistory' \in {conversationHistory, <<>>}
           /\ \A i \in 1..Len(messages') :
                IsAnswer(messages'[i]) =>
                  \E j \in 1..Len(messages) : messages[j] = messages'[i]
    ]_vars

C24_Witness ==
  /\ lastOp.op = "completed"
  /\ ~isTyping
  /\ pending = <<>>
  /\ Len(messages) = 3
  /\ messages[2].sender = "user"
  /\ messages[3].content \in Replies

\* C25: for one analysis result the automatic advice (welcome message and
\* advice request) is triggered at most once, whatever sends and clears
\* follow while that result stays set.
C25_AutoTriggerOnce == autoTriggers <= 1

\* Nothing of the session changes in this step.
SessionUntouched ==
  /\ messages' = messages
  /\ conversationHistory' = conversationHistory
  /\ storage' = storage
  /\ pending' = pending
  /\ timers' = timers
  /\ isTyping' = isTyping
  /\ ~isTyping'

\* C26: a rejected send changes nothing in the session. handleSendMessage
\* run while the user is not authenticated only sets the error text;
\* run with input that is empty after trimming it changes nothing at all. In
\* both cases no message is added, the Exchange log is unchanged, no request
\* is issued and isTyping stays false. handleAnalysisAdvice run while not
\* authenticated likewise only sets its error text.
C26_RejectedSendNoChange ==
  [][ /\ \A value \in InputValues, r \in Rand :
           /\ (HandleSendMessage(value, r) /\ ~isAuthenticated) =>
                /\ SessionUntouched
                /\ error' = LoginError("chat")
           /\ (HandleSendMessage(value, r) /\ isAuthenticated
                 /\ Trim(value) = "") =>
                /\ SessionUntouched
                /\ error' = error
      /\ \A r \in Rand :
           (HandleAnalysisAdvice(r) /\ ~isAuthenticated) =>
             /\ messages' = messages
             /\ conversationHistory' = conversationHistory
             /\ pending' = pending
             /\ ~isTyping'
             /\ error' = LoginError("advice")
    ]_vars

\* handleSendMessage has refused a user who is not logged in.
C26_Witness ==
  /\ ~isAuthenticated
  /\ error = LoginError("chat")
  /\ Len(messages) >= 2
  /\ pending = <<>>

\* C27: with a cap of at least 1 and storage written only by the program
\* the Message list is never empty: a session starts with the welcome
\* message or a stored non-empty list, adding only grows or trims to the cap,
\* and clearing leaves the one "Chat cleared" message.
C27_NeverEmpty ==
  maxHistoryLength >= 1 => Len(messages) >= 1

\* A list trimmed to a cap of 1 after a clear: one message is left.
C27_Witness ==
  /\ maxHistoryLength = 1
  /\ cleared
  /\ lastOp.op = "add"
  /\ Len(messages) = 1

\* C28: logging out leaves the chat session in place. authService.logout and
\* the 401 response handler remove the token and user entries and nothing
\* else, so the persisted Message list and Exchange log are unchanged; the
\* next initialization, whichever user has logged in, restores the list and
\* the log from those entries - after a logout, exactly the chat the
\* component held when the user logged out.
C28_LogoutKeepsChat ==
  [][ /\ (AuthServiceIsAuthenticated /\ ~AuthServiceIsAuthenticated') =>
           /\ storage'[UserKey] = Absent
           /\ storage'[MessagesKey] = storage[MessagesKey]
           /\ storage'[ConversationKey] = storage[ConversationKey]
      /\ (page = "login" /\ page' = "dashboard") =>
           /\ storage'[MessagesKey] = storage[MessagesKey]
           /\ storage'[ConversationKey] = storage[ConversationKey]
           /\ messages' = InitialMessages(storage[MessagesKey], now)
           /\ conversationHistory' =
                InitialConversation(storage[ConversationKey])
           /\ lastOp.op = "logout" =>
                /\ messages' = messages
                /\ conversationHistory' = conversationHistory
    ]_vars

\* Another user has logged in after a logout and sees the chat of the user
\* before: the question, its answer and the Exchange.
C28_Witness ==
  /\ lastOp.op = "login"
  /\ storage[UserKey] = UserOf("bob")
  /\ Shown(messages) = << [content |-> WelcomeText, sender |-> "bot"],
                          [content |-> "Hi", sender |-> "user"],
                          [content |-> "Hello!", sender |-> "bot"] >>
  /\ conversationHistory # <<>>

\* C29: after a response with status 401 the token and user entries are
\* absent from storage and authService.isAuthenticated() is false, until
\* somebody logs in; and the request fails for its caller: the step that
\* handles the 401 adds the error bot message of the request, leaves the
\* Exchange log as it is and ends the typing state.
C29_UnauthorizedHandled ==
  /\ [](page \in {"leaving", "login"} =>
          /\ storage[TokenKey] = Absent
          /\ storage[UserKey] = Absent
          /\ ~AuthServiceIsAuthenticated)
  /\ [][ (lastOp'.op = "unauthorized" /\ pending' # pending) =>
           /\ page' = "leaving"
           /\ Len(pending') = Len(pending) - 1
           /\ Len(inserted') = Len(inserted) + 1
           /\ Last(inserted').sender = "bot"
           /\ Last(inserted').content = ErrorMessage(lastOp'.b)
           /\ Last(messages') = Last(inserted')
           /\ conversationHistory' = conversationHistory
           /\ error' = FailureError(lastOp'.b)
           /\ ~isTyping'
        ]_vars

\* A chat request has been answered with 401 and the document is still
\* alive: the error message is the last of the list, nothing is logged.
C29_Witness ==
  /\ page = "leaving"
  /\ lastOp.op = "unauthorized"
  /\ lastOp.b = "chat"
  /\ Last(messages).content = ErrorMessage("chat")
  /\ conversationHistory = <<>>
  /\ ~AuthServiceIsAuthenticated

============================================================================
